---- MODULE Spec2Model ----
(***************************************************************************)
(* Model of planner_core.py (solve_swp and its helper engines).            *)
(*                                                                         *)
(* The program computes over real numbers.  They are modelled as exact     *)
(* rationals [n |-> numerator, d |-> denominator] in lowest terms, d > 0.  *)
(* The record with d = 0 stands for Python's None.  Rates are drawn from   *)
(* values whose 12th / 24th roots are rational, so that the monthly-rate   *)
(* conversion and the inflation power are computed exactly.                *)
(***************************************************************************)
EXTENDS Integers, Sequences, FiniteSets, TLC

--------------------------------------------------------------------------
(* Exact rational arithmetic *)

Abs(x) == IF x < 0 THEN -x ELSE x

RECURSIVE GCD(_, _)
GCD(a, b) == IF b = 0 THEN a ELSE GCD(b, a % b)

\* the element of a singleton; operands are bound through singletons so that
\* each is evaluated once (call by value), as in Python
Only(S) == CHOOSE x \in S : TRUE

Rat(num, den) ==
    Only({[n |-> (IF q < 0 THEN -p ELSE p) \div GCD(Abs(p), Abs(q)),
           d |-> Abs(q) \div GCD(Abs(p), Abs(q))] : p \in {num}, q \in {den}})

Z(i) == [n |-> i, d |-> 1]

NoneV == [n |-> 0, d |-> 0]
IsNone(x) == x.d = 0

RAdd(a, b) == Only({Rat(x.n * y.d + y.n * x.d, x.d * y.d) : x \in {a}, y \in {b}})
RSub(a, b) == Only({Rat(x.n * y.d - y.n * x.d, x.d * y.d) : x \in {a}, y \in {b}})
RMul(a, b) == Only({Rat(x.n * y.n, x.d * y.d) : x \in {a}, y \in {b}})
RDiv(a, b) == Only({Rat(x.n * y.d, x.d * y.n) : x \in {a}, y \in {b}})
RLe(a, b) == \E x \in {a}, y \in {b} : x.n * y.d <= y.n * x.d
RLt(a, b) == \E x \in {a}, y \in {b} : x.n * y.d < y.n * x.d
RAbs(a) == Only({[n |-> Abs(x.n), d |-> x.d] : x \in {a}})
RMax(a, b) == Only({IF RLe(x, y) THEN y ELSE x : x \in {a}, y \in {b}})

RECURSIVE RPow(_, _)
RPow(a, k) == IF k = 0 THEN Z(1) ELSE RMul(a, RPow(a, k - 1))

\* comparisons with the threshold 1e-12, decided without forming 10^12:
\* |x| < 1e-12  iff  |n| * 10^12 < d ;  |x| > 1e-12  iff  |n| * 10^12 > d
Million == 1000000
BelowEps(a) == \E x \in {a} : Abs(x.n) <= ((x.d - 1) \div Million) \div Million
AboveEps(a) == \E x \in {a} : Abs(x.n) > (x.d \div Million) \div Million

\* Python's round(): nearest integer, ties to the even one (q >= 0)
RoundHalfEven(a) ==
    Only({IF 2 * (q.n % q.d) < q.d THEN q.n \div q.d
          ELSE IF 2 * (q.n % q.d) > q.d THEN (q.n \div q.d) + 1
          ELSE IF (q.n \div q.d) % 2 = 0 THEN q.n \div q.d
          ELSE (q.n \div q.d) + 1 : q \in {a}})

\* integer power that stops growing once it passes lim (keeps roots searchable)
RECURSIVE IPowCap(_, _, _)
IPowCap(y, k, lim) ==
    IF k = 0 THEN 1
    ELSE Only({IF p > lim THEN p ELSE y * p : p \in {IPowCap(y, k - 1, lim)}})

MaxRoot == 4
\* the real m-th root of the integer x >= 1 (x is an exact m-th power)
Root(x, m) == CHOOSE y \in 1..MaxRoot : IPowCap(y, m, x) = x

\* base ** e for a real exponent e = k/24 (base = 1 + rate, an exact power)
PowReal(base, e) ==
    Only({IF 12 % x.d = 0
          THEN RPow(Z(Root(b.n, 12)), x.n * (12 \div x.d))
          ELSE RPow(Z(Root(b.n, 24)), x.n * (24 \div x.d)) :
          b \in {base}, x \in {e}})

--------------------------------------------------------------------------
(* The engines of planner_core.py *)

gross_monthly(r_annual) ==
    RSub(PowReal(RAdd(Z(1), r_annual), Rat(1, 12)), Z(1))

fv_before_tax(L, M, r, n) ==
    LET fv == RMul(L, RPow(RAdd(Z(1), r), n))
    IN  RAdd(fv, IF AboveEps(r)
                 THEN RDiv(RMul(M, RSub(RPow(RAdd(Z(1), r), n), Z(1))), r)
                 ELSE RMul(M, Z(n)))

\* variant: the gain is taken with the wrong sign
corpus_after_tax_SignFlip(L, M, r, n, tax) ==
    LET fv_bt == fv_before_tax(L, M, r, n)
        gains == RSub(RAdd(L, RMul(M, Z(n))), fv_bt)
    IN  RSub(fv_bt, RMul(RMax(gains, Z(0)), tax))

corpus_after_tax(L, M, r, n, tax) ==
    LET fv_bt == fv_before_tax(L, M, r, n)
        gains == RSub(fv_bt, RAdd(L, RMul(M, Z(n))))
    IN  RSub(fv_bt, RMul(RMax(gains, Z(0)), tax))

corpus_needed_for_swp(A_today, Ti, Tw, infl, r_month) ==
    LET g  == RSub(PowReal(RAdd(Z(1), infl), Rat(1, 12)), Z(1))
        M  == RoundHalfEven(RMul(Tw, Z(12)))
        W0 == RMul(A_today, PowReal(RAdd(Z(1), infl), Ti))
        k  == RDiv(RAdd(Z(1), g), RAdd(Z(1), r_month))
    IN  IF BelowEps(RSub(r_month, g))
        THEN RDiv(RMul(W0, Z(M)), RAdd(Z(1), r_month))
        ELSE RDiv(RMul(W0, RSub(Z(1), RPow(k, M))), RSub(r_month, g))

--------------------------------------------------------------------------
(* Bounded input domain (the documented one, section 6 of the contract) *)

MaxMoney == 2
MaxHalfMonths == 5

Moneys == {Z(i) : i \in 0..MaxMoney}
Periods == {Rat(k, 24) : k \in 0..MaxHalfMonths}
A_todays == {Z(1), Z(6)}
Tws == {Rat(1, 24), Rat(1, 12), Rat(1, 6)}
\* annual rates whose monthly equivalents are 0, 1 and 3
AnnualReturns == {Z(0), Z(4095), Z(16777215)}
InflationRates == {Z(0), Z(16777215)}
TaxRates == {Z(0), Rat(1, 2), Z(1)}
SearchCaps == {1}

Opt(S) == S \cup {NoneV}

Calls ==
    [A_today : A_todays, Tw : Tws, inflation_rate : InflationRates,
     annual_return : AnnualReturns, tax_rate : TaxRates,
     Ti : Opt(Periods), Mi : Opt(Moneys), I : Opt(Moneys),
     search_cap_years : SearchCaps]

\* variant: a call with nothing unset is let through
NoneCount_AllGivenAccepted(a) ==
    LET c == Cardinality({f \in {"Ti", "Mi", "I"} : IsNone(a[f])})
    IN  IF c = 0 THEN 1 ELSE c

NoneCount(a) ==
    (IF IsNone(a.Ti) THEN 1 ELSE 0) + (IF IsNone(a.Mi) THEN 1 ELSE 0)
      + (IF IsNone(a.I) THEN 1 ELSE 0)

--------------------------------------------------------------------------
(* solve_swp as a state machine: one action per step of the function *)

VARIABLES
    args,      \* the arguments the call was made with
    pc,        \* "idle", "entry", "dispatch", "search", "final", "returned",
               \* "raised" ("engine" when the engine is used on its own)
    Ti, Mi, I, \* the locals Ti, Mi, I (rebound when resolved)
    r,         \* the local r (monthly rate), NoneV until computed
    months,    \* the loop variable of the unknown-Ti search
    visited,   \* history: the month counts the search has evaluated, in order
    result,    \* the returned dict, or NoneV
    error,     \* the raised exception, or "none"
    first,     \* the arguments of the preceding call when re-solving, or NoneV
    eng        \* inputs and outputs of direct uses of the post-tax engine

vars == <<args, pc, Ti, Mi, I, r, months, visited, result, error, first, eng>>

Init ==
    /\ pc = "idle"
    /\ args = NoneV
    /\ Ti = NoneV /\ Mi = NoneV /\ I = NoneV
    /\ r = NoneV
    /\ months = 0
    /\ visited = <<>>
    /\ result = NoneV
    /\ error = "none"
    /\ first = NoneV
    /\ eng = NoneV

\* lines 53-64: the call binds the parameters
Call ==
    /\ pc = "idle"
    /\ \E a \in Calls :
          /\ args' = a
          /\ Ti' = a.Ti /\ Mi' = a.Mi /\ I' = a.I
    /\ pc' = "entry"
    /\ UNCHANGED <<r, months, visited, result, error, first, eng>>

Raise(e) ==
    /\ pc' = "raised"
    /\ error' = e

\* lines 71-74: the unknown count is validated, then the rate converted
Validate ==
    /\ pc = "entry"
    /\ IF NoneCount(args) # 1
       THEN Raise("ValueError") /\ UNCHANGED r
       ELSE /\ r' = gross_monthly(args.annual_return)
            /\ pc' = "dispatch"
            /\ UNCHANGED error
    /\ UNCHANGED <<args, Ti, Mi, I, months, visited, result, first, eng>>

\* the coefficients computed alike by both algebraic branches
Months(T) == RoundHalfEven(RMul(T, Z(12)))
Growth(n) == RPow(RAdd(Z(1), r), n)
Annuity(n) == IF AboveEps(r) THEN RDiv(RSub(Growth(n), Z(1)), r) ELSE Z(n)
A_L(n) == RAdd(RMul(RSub(Z(1), args.tax_rate), Growth(n)), args.tax_rate)
A_M(n) == RAdd(RMul(RSub(Z(1), args.tax_rate), Annuity(n)),
               RMul(args.tax_rate, Z(n)))
Cn == corpus_needed_for_swp(args.A_today, Ti, args.Tw, args.inflation_rate, r)

\* lines 77-86
UnknownI ==
    /\ pc = "dispatch"
    /\ IsNone(I)
    /\ LET n == Months(Ti)
       IN  IF A_L(n) = Z(0)
           THEN Raise("ZeroDivisionError") /\ UNCHANGED I
           ELSE /\ I' = RDiv(RSub(Cn, RMul(A_M(n), Mi)), A_L(n))
                /\ pc' = "final"
                /\ UNCHANGED error
    /\ UNCHANGED <<args, Ti, Mi, r, months, visited, result, first, eng>>

\* lines 89-98
UnknownMi ==
    /\ pc = "dispatch"
    /\ ~IsNone(I) /\ IsNone(Mi)
    /\ LET n == Months(Ti)
       IN  IF A_M(n) = Z(0)
           THEN Raise("ZeroDivisionError") /\ UNCHANGED Mi
           ELSE /\ Mi' = RDiv(RSub(Cn, RMul(A_L(n), I)), A_M(n))
                /\ pc' = "final"
                /\ UNCHANGED error
    /\ UNCHANGED <<args, Ti, I, r, months, visited, result, first, eng>>

\* lines 101-102
EnterSearch ==
    /\ pc = "dispatch"
    /\ ~IsNone(I) /\ ~IsNone(Mi)
    /\ months' = 0
    /\ pc' = "search"
    /\ UNCHANGED <<args, Ti, Mi, I, r, visited, result, error, first, eng>>

\* variant: the cap month itself is not evaluated
LoopCond_Exclusive(m) == m < args.search_cap_years * 12

\* line 103: the loop condition
LoopCond(m) == m <= args.search_cap_years * 12
\* variant: months taken for half-months
yrs_now_HalfMonths(m) == Rat(m, 24)

\* line 104
yrs_now(m) == Rat(m, 12)
\* lines 105-107: the acceptance test of one month
Cneed(m) ==
    corpus_needed_for_swp(args.A_today, yrs_now(m), args.Tw,
                          args.inflation_rate, r)
Chave(m) == corpus_after_tax(I, Mi, r, m, args.tax_rate)
\* variant: a month at which available = required is not accepted
Crossed_Strict(m) == RLt(Cneed(m), Chave(m))
Crossed(m) == RLe(Cneed(m), Chave(m))
\* variant: every other month is skipped
NextMonth_Skip(m) == m + 2

\* line 110
NextMonth(m) == m + 1

\* lines 103-110: one iteration of the while loop
SearchStep ==
    /\ pc = "search"
    /\ LoopCond(months)
    /\ visited' = Append(visited, months)
    /\ IF Crossed(months)
       THEN /\ Ti' = yrs_now(months)
            /\ pc' = "final"
            /\ UNCHANGED months
       ELSE /\ months' = NextMonth(months)
            /\ UNCHANGED <<Ti, pc>>
    /\ UNCHANGED <<args, Mi, I, r, result, error, first, eng>>

\* lines 111-112: the loop's else clause
SearchExhausted ==
    /\ pc = "search"
    /\ ~LoopCond(months)
    /\ Raise("RuntimeError")
    /\ UNCHANGED <<args, Ti, Mi, I, r, months, visited, result, first, eng>>

\* variant: the value the branch worked with is returned, not a recomputation
C_after_Intermediate == IF IsNone(args.Ti) THEN Chave(months) ELSE Cn

\* lines 115-116
C_after == corpus_after_tax(I, Mi, r, Months(Ti), args.tax_rate)

\* lines 114-123
FinalCorpus ==
    /\ pc = "final"
    /\ result' = [I |-> I, Mi |-> Mi, Ti |-> Ti,
                  corpus_at_retirement |-> C_after]
    /\ pc' = "returned"
    /\ UNCHANGED <<args, Ti, Mi, I, r, months, visited, error, first, eng>>

Next ==
    \/ Call
    \/ Validate
    \/ UnknownI
    \/ UnknownMi
    \/ EnterSearch
    \/ SearchStep
    \/ SearchExhausted
    \/ FinalCorpus

Spec == Init /\ [][Next]_vars

\* the call runs to completion once started (synchronous, section 5)
FairSpec ==
    Spec /\ WF_vars(SearchStep) /\ WF_vars(SearchExhausted)
         /\ WF_vars(FinalCorpus)

--------------------------------------------------------------------------
(* Re-solving: a resolved unknown is fed back and the other algebraic
   unknown is solved for, with the same Ti (the round trip of section 8) *)

ReSolve ==
    /\ pc = "returned"
    /\ first = NoneV
    /\ NoneCount(args) = 1 /\ ~IsNone(args.Ti)
    /\ args' = IF IsNone(args.I)
               THEN [args EXCEPT !.I = result.I, !.Mi = NoneV]
               ELSE [args EXCEPT !.Mi = result.Mi, !.I = NoneV]
    /\ first' = args
    /\ pc' = "entry"
    /\ Ti' = args'.Ti /\ Mi' = args'.Mi /\ I' = args'.I
    /\ r' = NoneV
    /\ months' = 0
    /\ visited' = <<>>
    /\ result' = NoneV
    /\ error' = "none"
    /\ UNCHANGED eng

NextRT ==
    \/ Call
    \/ Validate
    \/ UnknownI
    \/ UnknownMi
    \/ EnterSearch
    \/ SearchStep
    \/ SearchExhausted
    \/ FinalCorpus
    \/ ReSolve

SpecRT == Init /\ [][NextRT]_vars

--------------------------------------------------------------------------
(* The post-tax corpus engine used on its own: evaluated at some inputs,
   then again after the lump sum or the monthly contribution was increased *)

MaxEngMonths == 3

EngMoneys == {Z(i) : i \in (-MaxMoney)..MaxMoney}
\* monthly rates r > -1, a negative one included
EngRates == {Rat(-1, 2), Z(0), Z(1)}

InitEngine ==
    /\ \E L \in EngMoneys, M \in EngMoneys, rr \in EngRates,
          n \in 0..MaxEngMonths, tax \in TaxRates :
          eng = [L |-> L, M |-> M, r |-> rr, n |-> n, tax |-> tax,
                 out |-> NoneV, pL |-> L, pM |-> M, pOut |-> NoneV]
    /\ args = NoneV
    /\ pc = "engine"
    /\ Ti = NoneV /\ Mi = NoneV /\ I = NoneV
    /\ r = NoneV
    /\ months = 0
    /\ visited = <<>>
    /\ result = NoneV
    /\ error = "none"
    /\ first = NoneV

EngineFrame ==
    UNCHANGED <<args, pc, Ti, Mi, I, r, months, visited, result, error, first>>

EvalCorpus ==
    /\ pc = "engine"
    /\ IsNone(eng.out)
    /\ eng' = [eng EXCEPT
                 !.out = corpus_after_tax(eng.L, eng.M, eng.r, eng.n, eng.tax)]
    /\ EngineFrame

IncreaseLumpSum ==
    /\ pc = "engine"
    /\ ~IsNone(eng.out)
    /\ \E L2 \in EngMoneys :
          /\ RLt(eng.L, L2)
          /\ eng' = [eng EXCEPT
                       !.pL = eng.L, !.pM = eng.M, !.pOut = eng.out,
                       !.L = L2,
                       !.out = corpus_after_tax(L2, eng.M, eng.r, eng.n,
                                                eng.tax)]
    /\ EngineFrame

IncreaseMonthly ==
    /\ pc = "engine"
    /\ ~IsNone(eng.out)
    /\ \E M2 \in EngMoneys :
          /\ RLt(eng.M, M2)
          /\ eng' = [eng EXCEPT
                       !.pL = eng.L, !.pM = eng.M, !.pOut = eng.out,
                       !.M = M2,
                       !.out = corpus_after_tax(eng.L, M2, eng.r, eng.n,
                                                eng.tax)]
    /\ EngineFrame

NextEngine ==
    \/ EvalCorpus
    \/ IncreaseLumpSum
    \/ IncreaseMonthly

SpecEngine == InitEngine /\ [][NextEngine]_vars

--------------------------------------------------------------------------
(* Helpers of the properties, independent of the solver's own definitions *)

Called == pc \notin {"idle", "engine"}
Unset(a) == Cardinality({f \in {"Ti", "Mi", "I"} : IsNone(a[f])})
Finished == pc \in {"returned", "raised"}
UnknownTi == Called /\ Unset(args) = 1 /\ IsNone(args.Ti)
UnknownMiCall == Called /\ Unset(args) = 1 /\ IsNone(args.Mi)
UnknownICall == Called /\ Unset(args) = 1 /\ IsNone(args.I)
CapMonths == args.search_cap_years * 12
Rm == gross_monthly(args.annual_return)
Need(m) ==
    corpus_needed_for_swp(args.A_today, Rat(m, 12), args.Tw,
                          args.inflation_rate, Rm)
Have(m) == corpus_after_tax(args.I, args.Mi, Rm, m, args.tax_rate)

--------------------------------------------------------------------------
(* Properties *)

\* C1: solve_swp raises ValueError exactly when the number of unset values
\* among Ti, Mi, I differs from 1, and it does so before the rate is
\* converted, any corpus computed or any search step taken; with exactly one
\* unset it never raises ValueError.
C1_InvalidInputIffUnsetNot1 ==
    /\ error = "ValueError" =>
          /\ Unset(args) # 1
          /\ IsNone(r) /\ visited = <<>> /\ months = 0 /\ result = NoneV
          /\ Ti = args.Ti /\ Mi = args.Mi /\ I = args.I
    /\ (Called /\ Unset(args) # 1 /\ pc # "entry") =>
          (pc = "raised" /\ error = "ValueError")

C1_Witness ==
    pc = "raised" /\ error = "ValueError" /\ Unset(args) = 0

\* C2: when Ti is the unknown and solve_swp returns, the returned Ti is m/12
\* for the smallest month count m in 0..search_cap_years*12 whose available
\* after-tax corpus is >= the required corpus at m/12: the returned corpus is
\* >= the required corpus at the returned Ti, and every earlier month count
\* has its available corpus strictly below its required corpus.
C2_FirstCrossingReturned ==
    (pc = "returned" /\ UnknownTi) =>
        \E m \in 0..CapMonths :
            /\ result.Ti = Rat(m, 12)
            /\ RLe(Need(m), Have(m))
            /\ RLe(Need(m), result.corpus_at_retirement)
            /\ \A k \in 0..(m - 1) : RLt(Have(k), Need(k))

C2_Witness ==
    /\ pc = "returned" /\ UnknownTi
    /\ RLt(Z(0), result.Ti)
    /\ result.corpus_at_retirement = Need(Months(result.Ti))

\* C3: when Ti is the unknown, solve_swp ends in RuntimeError exactly when no
\* month count in 0..search_cap_years*12 (ends included) has available corpus
\* >= required corpus; a first crossing at month search_cap_years*12 is
\* returned, and a failed call returns no result.
C3_UnreachableIffNoCrossing ==
    /\ (Finished /\ UnknownTi) =>
          (error = "RuntimeError"
             <=> \A m \in 0..CapMonths : RLt(Have(m), Need(m)))
    /\ error = "RuntimeError" => (UnknownTi /\ result = NoneV)
    /\ (pc = "returned" /\ UnknownTi) => error = "none"

C3_Witness ==
    /\ pc = "returned" /\ UnknownTi
    /\ result.Ti = Z(args.search_cap_years)
    /\ \A m \in 0..(CapMonths - 1) : RLt(Have(m), Need(m))

\* C4: on every successful call, in all three branches, the returned
\* corpus_at_retirement is the post-tax corpus engine applied to the returned
\* I and Mi, the monthly rate of annual_return, round(returned Ti * 12) months
\* and tax_rate.
C4_CorpusRecomputedFromTriple ==
    pc = "returned" =>
        result.corpus_at_retirement =
            corpus_after_tax(result.I, result.Mi, Rm,
                             RoundHalfEven(RMul(result.Ti, Z(12))),
                             args.tax_rate)

\* a call of an algebraic branch whose resolved triple has a loss, so that
\* the recomputed corpus differs from the corpus the branch solved for
C4_Witness ==
    /\ pc = "returned" /\ UnknownICall
    /\ result.corpus_at_retirement #
         corpus_needed_for_swp(args.A_today, args.Ti, args.Tw,
                               args.inflation_rate, Rm)

\* C5: in the unknown-I and unknown-Mi branches the returned
\* corpus_at_retirement equals the required corpus at the given Ti, for
\* every input of the documented domain, a negative solved unknown included.
C5_AlgebraicCorpusEqualsRequired ==
    (pc = "returned" /\ first = NoneV /\ (UnknownICall \/ UnknownMiCall)) =>
        result.corpus_at_retirement =
            corpus_needed_for_swp(args.A_today, args.Ti, args.Tw,
                                  args.inflation_rate, Rm)

\* C6: solving for I from (Mi, Ti) and then for Mi from that I and the same
\* Ti returns the original Mi, and symmetrically for I, for every Ti of the
\* documented domain, those that round to 0 months included.
C6_RoundTrip ==
    (first # NoneV /\ Finished) =>
        /\ pc = "returned"
        /\ IF IsNone(first.I)
           THEN result.Mi = first.Mi
           ELSE result.I = first.I

\* C7: with exactly one of Ti, Mi, I unset and inputs of the documented
\* domain, the only failures of solve_swp are ValueError and RuntimeError;
\* no arithmetic failure occurs, and the unknown-I and unknown-Mi branches
\* never raise RuntimeError.
C7_OnlyTwoFailureKinds ==
    (Called /\ first = NoneV /\ Unset(args) = 1) =>
        /\ error \in {"none", "ValueError", "RuntimeError"}
        /\ error = "RuntimeError" => IsNone(args.Ti)

\* C8: the post-tax corpus engine is non-decreasing in the lump sum and in
\* the monthly contribution, for a fixed monthly rate r > -1, n >= 0 months
\* and tax_rate in [0,1], also across a change of sign of the gain.
C8_CorpusMonotone ==
    (pc = "engine" /\ ~IsNone(eng.pOut)
       /\ RLe(eng.pL, eng.L) /\ RLe(eng.pM, eng.M)) =>
        RLe(eng.pOut, eng.out)

EngGain(L, M) ==
    RSub(RAdd(RMul(L, RPow(RAdd(Z(1), eng.r), eng.n)),
              IF eng.r = Z(0) THEN RMul(M, Z(eng.n))
              ELSE RDiv(RMul(M, RSub(RPow(RAdd(Z(1), eng.r), eng.n), Z(1))),
                        eng.r)),
         RAdd(L, RMul(M, Z(eng.n))))

\* the increase took the gain from a loss to a profit, with tax to pay
C8_Witness ==
    /\ pc = "engine" /\ ~IsNone(eng.pOut)
    /\ RLt(Z(0), eng.tax)
    /\ RLt(EngGain(eng.pL, eng.pM), Z(0))
    /\ RLt(Z(0), EngGain(eng.L, eng.M))
    /\ RLt(eng.pOut, eng.out)

\* C10: a successful call returns the two supplied accumulation variables
\* unchanged, and in the unknown-Ti branch the resolved Ti is a whole number
\* of months, as a multiple of 1/12, within 0..search_cap_years.
C10_GivenVariablesUnchanged ==
    (pc = "returned" /\ Unset(args) = 1) =>
        /\ ~IsNone(args.Ti) => result.Ti = args.Ti
        /\ ~IsNone(args.Mi) => result.Mi = args.Mi
        /\ ~IsNone(args.I) => result.I = args.I
        /\ IsNone(args.Ti) =>
              \E m \in 0..CapMonths : result.Ti = Rat(m, 12)

C10_Witness ==
    /\ pc = "returned" /\ UnknownTi
    /\ result.Ti = Rat(5, 12)
    /\ result.I = args.I /\ result.Mi = args.Mi

\* C9: the unknown-Ti search terminates: it evaluates the month counts
\* 0, 1, 2, ... in increasing order without skipping or repeating one, makes
\* at most search_cap_years*12 + 1 evaluations, stops at the first month whose
\* available corpus is >= the required one, and otherwise ends in
\* RuntimeError, after which the call takes no further step.
C9_SearchOrder ==
    /\ \A i \in 1..Len(visited) : visited[i] = i - 1
    /\ Called => Len(visited) <= CapMonths + 1
    /\ \A i \in 1..(Len(visited) - 1) : RLt(Have(visited[i]), Need(visited[i]))
    /\ pc = "search" =>
          (months = Len(visited)
             /\ \A i \in 1..Len(visited) : RLt(Have(visited[i]), Need(visited[i])))
    /\ (pc \in {"final", "returned"} /\ UnknownTi) =>
          (Len(visited) > 0
             /\ RLe(Need(visited[Len(visited)]), Have(visited[Len(visited)])))
    /\ error = "RuntimeError" => Len(visited) = CapMonths + 1

C9_SearchTerminates ==
    /\ []C9_SearchOrder
    /\ [][error = "RuntimeError" => FALSE]_vars
    /\ (pc = "search") ~> Finished

C9_Witness ==
    /\ pc = "raised" /\ error = "RuntimeError"
    /\ Len(visited) = CapMonths + 1

====
